---- MODULE Spec2Model ----
(***************************************************************************)
(* Spaced-repetition / adaptive-review engine of the Japanese learning     *)
(* platform.                                                               *)
(*                                                                         *)
(* Numbers.  The code computes in IEEE doubles; the model computes in      *)
(* exact fixed point.  Ease factors are held in hundredths (2.5 is 250),   *)
(* which is also the precision of the srs_cards.ease_factor column         *)
(* (NUMERIC(3,2)).  Every ease-factor step of SM-2 is a whole number of    *)
(* hundredths: 0.1 - d*(0.08 + d*0.02) = (10 - d*(8 + 2*d)) / 100.         *)
(* Time is counted in whole days.                                          *)
(***************************************************************************)
EXTENDS Integers, Sequences, FiniteSets, TLC

VARIABLES
    sm2,              \* scheduler harness: one card driven through one of the two schedulers
    now,              \* the clock (new Date()), in days
    srs_cards,        \* table srs_cards: sequence of rows, row i has id i (SERIAL)
    user_performance, \* table user_performance: sequence of rows, row i has id i
    strictColumns,    \* deployment: the store rejects a write that names an unknown column
    srsCards,         \* useSRS state: the hook's list of the user's cards
    dueCards,         \* useSRS state: the hook's list of due cards
    error,            \* useSRS state: the hook's error message
    reviewed,         \* history: per card id, the run of successes (quality >= 3) that ends
                      \* the reviews the store has received for the card
    reviewCalls,      \* history: number of reviewCard calls made
    lastReview,       \* history: what the latest reviewCard call returned and whether it
                      \* wrote a user_performance row
    sel,              \* item-selector harness: the inputs, the calls made and their results
    pred,             \* retention-predictor harness: the features and the result
    adj,              \* difficulty-adjuster harness: the item, the sample and the result
    timing,           \* review-timing harness: the features, the target and the result
    meta,             \* ContentMetadataManager: metadataCache and the getContentMetadata calls
    coord,            \* LearningEngineCoordinator: the candidates its selector is given, the
                      \* sessions returned, the responses processed and what was handed
                      \* to storage
    rt,               \* the mounted hook with its realtime subscription: the stage of the
                      \* initial fetch, the change events in flight, the addToSRS calls
                      \* waiting to resume and the reviewCard calls made
    recorded          \* store harness history: the updateUserPerformance calls made, and per
                      \* content item the attempts the store has recorded and how many of
                      \* them were correct

engineVars == <<adj, timing, meta, coord, rt, recorded>>
harnessVars == <<sm2, sel, pred, engineVars>>
storeVars == <<srs_cards, user_performance, strictColumns>>
hookVars == <<srsCards, dueCards, error, reviewed, reviewCalls, lastReview>>
vars == <<sm2, now, srs_cards, user_performance, strictColumns, srsCards, dueCards,
          error, reviewed, reviewCalls, lastReview, sel, pred, engineVars>>

----------------------------------------------------------------------------
(* Bounds of the model *)

MaxCalls == 2               \* scheduler calls in one run of the harness
MaxInitRepetitions == 3     \* repetitions of the card the harness starts from
MaxInitInterval == 7        \* interval (days) of the card the harness starts from
MaxInitEaseSteps == 14      \* starting ease factors: 1.30, 1.40 .. 1.30 + steps/10
MaxDay == 1                 \* the clock runs over days 0..MaxDay
MaxCards == 2               \* rows of srs_cards
MaxReviews == 3             \* reviewCard calls in one run
MaxPool == 3                \* candidate items handed to the selector
MaxSelectCalls == 2         \* selectStudyItems calls in one run
MaxMetaCalls == 3           \* getContentMetadata calls in one run
MaxSessions == 2            \* initializeStudySession calls in one run
MaxResponses == 2           \* processUserResponse calls in one run
MaxSessionPool == 2         \* candidate items the coordinator's selector is given
MaxAttempts == 3            \* updateUserPerformance calls in one run of the store harness
MaxLiveReviews == 2         \* reviewCard calls made on the mounted hook, overlapping or not
MaxDeletes == 1             \* cards deleted by another client while the hook is mounted

(* Program constants *)

MinQuality == 0
MaxQuality == 5
MinEaseFactor == 130        \* 1.3, in hundredths
DefaultEaseFactor == 250    \* 2.5, in hundredths

\* quality scores a caller may pass: the valid ones and their out-of-range neighbours
Qualities == (MinQuality - 1) .. (MaxQuality + 2)

\* the quality scores the hook is driven with: a failure, a success, one above range
ReviewQualities == { 1, 4, MaxQuality + 1 }

----------------------------------------------------------------------------
(* The harnesses at rest.  Each specification drives one part of the engine *)
(* and leaves the harnesses of the other parts at rest.                     *)

SM2Card(r, i, e) == [repetitions |-> r, interval |-> i, easeFactor |-> e]

SM2Idle ==
    [impl |-> "none", card |-> SM2Card(0, 0, DefaultEaseFactor), calls |-> 0,
     called |-> FALSE, quality |-> 0, before |-> SM2Card(0, 0, DefaultEaseFactor),
     ok |-> TRUE]

SelIdle ==
    [userData |-> << >>, candidateItems |-> << >>, itemCount |-> 0, calls |-> 0,
     result |-> << >>, previous |-> << >>, scoredAt |-> 0]

PredIdle ==
    [called |-> FALSE,
     itemData |-> [timeSinceLastReview |-> 0, easeFactor |-> 0, userHistoricalAccuracy |-> 0,
                   contentDifficulty |-> 0, dailyLoadFactor |-> 0],
     probability |-> 0]

AdjIdle ==
    [called |-> FALSE,
     item |-> [averageTime |-> << >>],
     performanceData |-> [accuracy |-> 0, responseTime |-> 0, attempts |-> 0,
                          previousAverageTime |-> 0],
     result |-> << >>]

TimingIdle ==
    [called |-> FALSE,
     itemData |-> [timeSinceLastReview |-> 0, easeFactor |-> 0, userHistoricalAccuracy |-> 0,
                   contentDifficulty |-> 0, dailyLoadFactor |-> 0, currentInterval |-> 0],
     targetRetention |-> 0,
     result |-> << >>]

\* new Map(), no call made
MetaIdle == [cache |-> << >>, calls |-> << >>, clock |-> 0]

CoordIdle ==
    [candidateItems |-> << >>, sessions |-> << >>, responses |-> << >>,
     performanceUpdates |-> << >>, itemUpdates |-> << >>]

RtIdle == [fetch |-> "done", events |-> << >>, adds |-> << >>, calls |-> << >>]

RecordedIdle ==
    [calls |-> 0,
     attempts |-> [c \in { <<"character", 1>>, <<"word", 1>> } |-> 0],
     correct |-> [c \in { <<"character", 1>>, <<"word", 1>> } |-> 0]]

EngineIdle ==
    /\ adj = AdjIdle
    /\ timing = TimingIdle
    /\ meta = MetaIdle
    /\ coord = CoordIdle
    /\ recorded = RecordedIdle
    /\ rt = RtIdle

----------------------------------------------------------------------------
(* Helpers *)

\* Math.round(num / den) for den > 0: the nearest integer, halves towards +infinity
MathRound(num, den) == (2 * num + den) \div (2 * den)

\* new Date() + daysFromNow days
calculateNextReviewDate(daysFromNow) == now + daysFromNow

\* { ...a, ...b }: the fields of both, those of b winning
Spread(a, b) ==
    [f \in DOMAIN a \cup DOMAIN b |-> IF f \in DOMAIN b THEN b[f] ELSE a[f]]

----------------------------------------------------------------------------
(* The scheduler of the application code: calculateSM2 of srs.ts.          *)
(* It has no input validation, and the interval of the third and later     *)
(* repetitions is multiplied by the ease factor AFTER this review's update.*)

\* calculateSM2 without the floor of lines 190-192
calculateSM2_NoFloor(quality, repetitions, easeFactor, interval) ==
    LET d == 5 - quality
        newEaseFactor == easeFactor + (10 - d * (8 + d * 2))
        newRepetitions == IF quality < 3 THEN 0 ELSE repetitions + 1
        newInterval ==
            IF quality < 3 THEN 1
            ELSE IF newRepetitions = 1 THEN 1
            ELSE IF newRepetitions = 2 THEN 6
            ELSE MathRound(interval * newEaseFactor, 100)
    IN  [ok |-> TRUE, interval |-> newInterval, repetitions |-> newRepetitions,
         easeFactor |-> newEaseFactor]

\* calculateSM2 that forgets `newInterval = 1` in the failure branch
calculateSM2_KeepsInterval(quality, repetitions, easeFactor, interval) ==
    LET d == 5 - quality
        raw == easeFactor + (10 - d * (8 + d * 2))
        newEaseFactor == IF raw < MinEaseFactor THEN MinEaseFactor ELSE raw
        newRepetitions == IF quality < 3 THEN 0 ELSE repetitions + 1
        newInterval ==
            IF quality < 3 THEN interval
            ELSE IF newRepetitions = 1 THEN 1
            ELSE IF newRepetitions = 2 THEN 6
            ELSE MathRound(interval * newEaseFactor, 100)
    IN  [ok |-> TRUE, interval |-> newInterval, repetitions |-> newRepetitions,
         easeFactor |-> newEaseFactor]

\* calculateSM2 with the sign of the ease-factor step inverted
calculateSM2_EaseInverted(quality, repetitions, easeFactor, interval) ==
    LET d == 5 - quality
        raw == easeFactor - (10 - d * (8 + d * 2))
        newEaseFactor == IF raw < MinEaseFactor THEN MinEaseFactor ELSE raw
        newRepetitions == IF quality < 3 THEN 0 ELSE repetitions + 1
        newInterval ==
            IF quality < 3 THEN 1
            ELSE IF newRepetitions = 1 THEN 1
            ELSE IF newRepetitions = 2 THEN 6
            ELSE MathRound(interval * newEaseFactor, 100)
    IN  [ok |-> TRUE, interval |-> newInterval, repetitions |-> newRepetitions,
         easeFactor |-> newEaseFactor]

calculateSM2(quality, repetitions, easeFactor, interval) ==
    LET d == 5 - quality
        raw == easeFactor + (10 - d * (8 + d * 2))
        newEaseFactor == IF raw < MinEaseFactor THEN MinEaseFactor ELSE raw
        newRepetitions == IF quality < 3 THEN 0 ELSE repetitions + 1
        newInterval ==
            IF quality < 3 THEN 1
            ELSE IF newRepetitions = 1 THEN 1
            ELSE IF newRepetitions = 2 THEN 6
            ELSE MathRound(interval * newEaseFactor, 100)
    IN  [ok |-> TRUE,
         interval |-> newInterval,
         repetitions |-> newRepetitions,
         easeFactor |-> newEaseFactor]

(* The scheduler of the learning-engine design: SM2Algorithm.calculateNextReview. *)
(* It throws on a quality outside 0..5 and multiplies the interval by the  *)
(* ease factor passed in.                                                  *)

calculateNextReview(quality, repetitions, previousInterval, easeFactor) ==
    IF quality < MinQuality \/ quality > MaxQuality
    THEN [ok |-> FALSE, error |-> "Quality must be between 0 and 5"]
    ELSE
    LET newRepetitions == IF quality < 3 THEN 0 ELSE repetitions + 1
        newInterval ==
            IF quality < 3 THEN 1
            ELSE IF newRepetitions = 1 THEN 1
            ELSE IF newRepetitions = 2 THEN 6
            ELSE MathRound(previousInterval * easeFactor, 100)
        d == 5 - quality
        raw == easeFactor + (10 - d * (8 + d * 2))
        newEaseFactor == IF raw < MinEaseFactor THEN MinEaseFactor ELSE raw
    IN  [ok |-> TRUE,
         interval |-> newInterval,
         repetitions |-> newRepetitions,
         easeFactor |-> newEaseFactor,
         nextReviewDate |-> calculateNextReviewDate(newInterval)]

----------------------------------------------------------------------------
(* The store (Supabase tables srs_cards and user_performance), as the      *)
(* functions of srs.ts use it.  A store call answers <<row>> (data) or     *)
(* <<>> (the function logged the error and returned null).  `up` says      *)
(* whether the request reached the store and was served.  The columns      *)
(* created_at, updated_at and last_attempt are written and never read by   *)
(* the hook; the tables are modelled without them.                         *)

NoDate == -1                \* a null timestamp
UserId == "user-1"
NoUser == ""                \* the user_id of a deleted row: a deleted row keeps its place in
                            \* the table (its SERIAL id is not given again) and matches no query
Contents == { <<"character", 1>>, <<"word", 1>> }
ResponseTimes == { 500, 1500 }      \* milliseconds

PerformanceColumns ==
    {"id", "user_id", "content_type", "content_id", "attempts", "correct_attempts",
     "accuracy_rate", "avg_response_time"}

SRSColumns ==
    {"id", "user_id", "content_type", "content_id", "ease_factor", "interval",
     "repetitions", "next_review", "last_reviewed"}

\* rows of `table` for the user and the content item
RowsByContent(table, contentType, contentId) ==
    { i \in 1 .. Len(table) :
        /\ table[i].user_id = UserId
        /\ table[i].content_type = contentType
        /\ table[i].content_id = contentId }

\* .single(): the one row selected, an error when there is none or more than one
Single(table, ids, up) ==
    IF up /\ Cardinality(ids) = 1 THEN << table[CHOOSE i \in ids : TRUE] >> ELSE << >>

getSRSCardByContent(contentType, contentId, up) ==
    Single(srs_cards, RowsByContent(srs_cards, contentType, contentId), up)

\* .update(updates).eq('id', id).select().single(): the columns named by `updates`
\* are written; a key that is no column of the table is rejected by a strict store
\* and ignored by a lenient one
StoreUpdate(table, columns, id, updates, up) ==
    IF \/ ~up
       \/ id \notin 1 .. Len(table)
       \/ table[id].user_id = NoUser
       \/ (strictColumns /\ ~(DOMAIN updates \subseteq columns))
    THEN [table |-> table, data |-> << >>]
    ELSE LET row == [c \in DOMAIN table[id] |->
                        IF c \in DOMAIN updates THEN updates[c] ELSE table[id][c]]
         IN  [table |-> [table EXCEPT ![id] = row], data |-> << row >>]

\* .insert([row]).select().single(): the row gets the next SERIAL id
StoreInsert(table, row, up) ==
    IF ~up
    THEN [table |-> table, data |-> << >>]
    ELSE LET r == [row EXCEPT !.id = Len(table) + 1]
         IN  [table |-> Append(table, r), data |-> << r >>]

createSRSCard(card, up) ==
    StoreInsert(srs_cards, card, up)

updateSRSCard(id, updates, up) ==
    StoreUpdate(srs_cards, SRSColumns, id, updates, up)

\* the accuracy_rate of a new user_performance row: isCorrect ? 100 : 0
InitialAccuracyRate(isCorrect) == IF isCorrect THEN 100 * 100 ELSE 0

\* accuracy_rate and avg_response_time are held in hundredths (toFixed(2))
updateUserPerformance(contentType, contentId, isCorrect, responseTime, fetchUp, writeUp) ==
    LET existing == Single(user_performance,
                           RowsByContent(user_performance, contentType, contentId), fetchUp)
    IN  IF existing = << >>
        THEN StoreInsert(user_performance,
                 [id |-> 0,
                  user_id |-> UserId,
                  content_type |-> contentType,
                  content_id |-> contentId,
                  attempts |-> 1,
                  correct_attempts |-> IF isCorrect THEN 1 ELSE 0,
                  accuracy_rate |-> InitialAccuracyRate(isCorrect),
                  avg_response_time |-> responseTime * 100],
                 writeUp)
        ELSE LET existingData == existing[1]
                 attempts == existingData.attempts + 1
                 correctAttempts == existingData.correct_attempts + (IF isCorrect THEN 1 ELSE 0)
                 totalResponseTime ==
                     existingData.avg_response_time * existingData.attempts + responseTime * 100
             IN  StoreUpdate(user_performance, PerformanceColumns, existingData.id,
                     [attempts |-> attempts,
                      correct_attempts |-> correctAttempts,
                      accuracy_rate |-> MathRound(correctAttempts * 10000, attempts),
                      avg_response_time |-> MathRound(totalResponseTime, attempts)],
                     writeUp)

\* .delete().eq('id', id): the answer is whether the request was served
deleteSRSCard(id, up) ==
    IF ~up THEN [table |-> srs_cards, ok |-> FALSE]
    ELSE IF id \notin 1 .. Len(srs_cards) THEN [table |-> srs_cards, ok |-> TRUE]
    ELSE [table |-> [srs_cards EXCEPT ![id].user_id = NoUser], ok |-> TRUE]

StoreIdle ==
    /\ srs_cards = << >>
    /\ user_performance = << >>
    /\ strictColumns = FALSE

----------------------------------------------------------------------------
(* The useSRS hook.  Each call runs to completion before the next starts.  *)

\* srsCards.find((c) => c.id === cardId): <<card>> or << >>
FindCard(cards, cardId) ==
    LET hits == { i \in 1 .. Len(cards) : cards[i].id = cardId }
    IN  IF hits = {} THEN << >>
        ELSE << cards[CHOOSE i \in hits : \A j \in hits : i <= j] >>

\* prev.map((c) => (c.id === cardId ? updatedCard : c))
MapReplace(cards, cardId, updatedCard) ==
    [i \in 1 .. Len(cards) |-> IF cards[i].id = cardId THEN updatedCard ELSE cards[i]]

\* prev.filter((c) => c.id !== cardId)
FilterOut(cards, cardId) == SelectSeq(cards, LAMBDA c : c.id # cardId)

addToSRS ==
    \E content \in Contents, lookupUp \in BOOLEAN, insertUp \in BOOLEAN :
        LET existingCard == getSRSCardByContent(content[1], content[2], lookupUp)
            created == createSRSCard(
                           [id |-> 0,
                            user_id |-> UserId,
                            content_type |-> content[1],
                            content_id |-> content[2],
                            ease_factor |-> DefaultEaseFactor,
                            interval |-> 0,
                            repetitions |-> 0,
                            next_review |-> now,
                            last_reviewed |-> NoDate],
                           insertUp)
        IN  /\ IF existingCard # << >>
               THEN UNCHANGED <<srs_cards, srsCards, dueCards>>
               ELSE /\ Len(srs_cards) < MaxCards
                    /\ srs_cards' = created.table
                    /\ IF created.data # << >>
                       THEN LET newCard == created.data[1]
                            IN  /\ srsCards' = Append(srsCards, newCard)
                                /\ dueCards' = IF newCard.next_review <= now
                                               THEN Append(dueCards, newCard)
                                               ELSE dueCards
                       ELSE UNCHANGED <<srsCards, dueCards>>
            /\ UNCHANGED <<harnessVars, now, user_performance, strictColumns, error,
                           reviewed, reviewCalls, lastReview>>

reviewCard ==
    \E cardId \in 1 .. MaxCards, quality \in ReviewQualities, responseTime \in ResponseTimes,
       cardUp \in BOOLEAN, fetchUp \in BOOLEAN, writeUp \in BOOLEAN :
        LET found == FindCard(srsCards, cardId)
        IN  /\ reviewCalls < MaxReviews
            /\ reviewCalls' = reviewCalls + 1
            /\ IF found = << >>
               THEN /\ lastReview' = [returned |-> "null", card |-> FALSE,
                                      performance |-> FALSE]
                    /\ UNCHANGED <<srs_cards, user_performance, srsCards, dueCards, reviewed>>
               ELSE LET card == found[1]
                        sm2Result == calculateSM2(quality, card.repetitions,
                                                  card.ease_factor, card.interval)
                        nextReview == now + sm2Result.interval
                        updated == updateSRSCard(cardId,
                                       [interval |-> sm2Result.interval,
                                        repetitions |-> sm2Result.repetitions,
                                        easeFactor |-> sm2Result.easeFactor,
                                        last_reviewed |-> now,
                                        next_review |-> nextReview],
                                       cardUp)
                        performance == updateUserPerformance(card.content_type,
                                           card.content_id, quality >= 3, responseTime,
                                           fetchUp, writeUp)
                    IN  /\ srs_cards' = updated.table
                        /\ user_performance' = performance.table
                        /\ lastReview' = [returned |-> IF updated.data # << >>
                                                       THEN "updatedCard" ELSE "null",
                                          card |-> updated.data # << >>,
                                          performance |-> performance.data # << >>]
                        /\ reviewed' = IF cardUp
                                       THEN [reviewed EXCEPT ![cardId] = IF quality >= 3 THEN @ + 1 ELSE 0]
                                       ELSE reviewed
                        /\ IF updated.data # << >>
                           THEN /\ srsCards' = MapReplace(srsCards, cardId, updated.data[1])
                                /\ dueCards' = FilterOut(dueCards, cardId)
                           ELSE UNCHANGED <<srsCards, dueCards>>
            /\ UNCHANGED <<harnessVars, now, strictColumns, error>>

\* a day passes
Tick ==
    /\ now < MaxDay
    /\ now' = now + 1
    /\ UNCHANGED <<harnessVars, storeVars, hookVars>>

HookIdle ==
    /\ srsCards = << >>
    /\ dueCards = << >>
    /\ error = "null"
    /\ reviewed = [id \in 1 .. MaxCards |-> 0]
    /\ reviewCalls = 0
    /\ lastReview = [returned |-> "none", card |-> FALSE, performance |-> FALSE]

----------------------------------------------------------------------------
(* Store harness: the functions of srs.ts called one after the other by a  *)
(* client of the module, on a store that serves or fails each request.     *)

NewCard(content) ==
    [id |-> 0, user_id |-> UserId, content_type |-> content[1], content_id |-> content[2],
     ease_factor |-> DefaultEaseFactor, interval |-> 0, repetitions |-> 0,
     next_review |-> now, last_reviewed |-> NoDate]

CallCreateSRSCard ==
    /\ Len(srs_cards) < MaxCards
    /\ \E content \in Contents, up \in BOOLEAN :
          srs_cards' = createSRSCard(NewCard(content), up).table
    /\ UNCHANGED <<now, harnessVars, user_performance, strictColumns, hookVars>>

CallDeleteSRSCard ==
    /\ \E id \in 1 .. MaxCards, up \in BOOLEAN :
          srs_cards' = deleteSRSCard(id, up).table
    /\ UNCHANGED <<now, harnessVars, user_performance, strictColumns, hookVars>>

CallUpdateUserPerformance ==
    /\ recorded.calls < MaxAttempts
    /\ \E content \in Contents, isCorrect \in BOOLEAN, responseTime \in ResponseTimes,
          fetchUp \in BOOLEAN, writeUp \in BOOLEAN :
          LET performance == updateUserPerformance(content[1], content[2], isCorrect,
                                                   responseTime, fetchUp, writeUp)
          IN  /\ user_performance' = performance.table
              /\ recorded' =
                    IF performance.data = << >>
                    THEN [recorded EXCEPT !.calls = @ + 1]
                    ELSE [recorded EXCEPT
                            !.calls = @ + 1,
                            !.attempts[content] = @ + 1,
                            !.correct[content] = @ + (IF isCorrect THEN 1 ELSE 0)]
    /\ UNCHANGED <<now, sm2, sel, pred, adj, timing, meta, coord, rt, srs_cards,
                   strictColumns, hookVars>>

StoreInit ==
    /\ strictColumns \in BOOLEAN
    /\ srs_cards = << >>
    /\ user_performance = << >>
    /\ recorded = RecordedIdle
    /\ rt = RtIdle
    /\ now = 0
    /\ sm2 = SM2Idle
    /\ sel = SelIdle
    /\ pred = PredIdle
    /\ adj = AdjIdle
    /\ timing = TimingIdle
    /\ meta = MetaIdle
    /\ coord = CoordIdle
    /\ HookIdle

StoreNext == CallCreateSRSCard \/ CallDeleteSRSCard \/ CallUpdateUserPerformance

SpecStore == StoreInit /\ [][StoreNext]_vars

----------------------------------------------------------------------------
(* The mounted hook.  useEffect starts the initial fetch and subscribes to *)
(* the INSERT, UPDATE and DELETE events of srs_cards; addToSRS and         *)
(* reviewCard are async functions, and a second call can be made while the *)
(* first waits for the store.  Each stretch of code between two awaits is  *)
(* one action.  The store serves every request here (failed requests are   *)
(* the subject of Spec and SpecStore), sends one event per changed row,     *)
(* and the events reach the hook in the order of the changes.  The write   *)
(* of updateUserPerformance touches nothing the other actions read; it is  *)
(* taken together with the code that follows it.                           *)

LiveRows(table) == { i \in 1 .. Len(table) : table[i].user_id = UserId }

\* .order('next_review', { ascending: true }); rows of one next_review in id order
RECURSIVE OrderByNextReview(_, _)
OrderByNextReview(table, ids) ==
    IF ids = {} THEN << >>
    ELSE LET first == CHOOSE i \in ids : \A j \in ids :
                          \/ table[i].next_review < table[j].next_review
                          \/ (table[i].next_review = table[j].next_review /\ i <= j)
         IN  << table[first] >> \o OrderByNextReview(table, ids \ {first})

getUserSRSCards == OrderByNextReview(srs_cards, LiveRows(srs_cards))

getDueSRSCards ==
    OrderByNextReview(srs_cards, { i \in LiveRows(srs_cards) : srs_cards[i].next_review <= now })

\* the reviews made on the mounted hook: a failure and a success, answered in 0.5 s
LiveQualities == { 1, 4 }
LiveResponseTime == 500

Event(event, row) == [event |-> event, row |-> row]

RemoveAt(seq, k) == [i \in 1 .. Len(seq) - 1 |-> IF i < k THEN seq[i] ELSE seq[i + 1]]

\* fetchSRSCards up to its second await: setSrsCards(cards)
fetchUserCards ==
    /\ rt.fetch = "cards"
    /\ srsCards' = getUserSRSCards
    /\ rt' = [rt EXCEPT !.fetch = "due"]
    /\ UNCHANGED <<now, sm2, sel, pred, adj, timing, meta, coord, recorded, storeVars,
                   dueCards, error, reviewed, reviewCalls, lastReview>>

\* fetchSRSCards after its second await: setDueCards(due)
fetchDueCards ==
    /\ rt.fetch = "due"
    /\ dueCards' = getDueSRSCards
    /\ rt' = [rt EXCEPT !.fetch = "done"]
    /\ UNCHANGED <<now, sm2, sel, pred, adj, timing, meta, coord, recorded, storeVars,
                   srsCards, error, reviewed, reviewCalls, lastReview>>

\* addToSRS up to the answer of createSRSCard: the lookup finds no card, the card is
\* inserted and the store sends the INSERT event
addToSRSInsert ==
    /\ Len(srs_cards) < MaxCards
    /\ \E content \in Contents :
          LET created == createSRSCard(NewCard(content), TRUE)
          IN  /\ getSRSCardByContent(content[1], content[2], TRUE) = << >>
              /\ srs_cards' = created.table
              /\ rt' = [rt EXCEPT !.events = Append(@, Event("INSERT", created.data[1])),
                                  !.adds = Append(@, created.data[1])]
    /\ UNCHANGED <<now, sm2, sel, pred, adj, timing, meta, coord, recorded,
                   user_performance, strictColumns, hookVars>>

\* addToSRS after createSRSCard has answered
addToSRSResume ==
    \E k \in 1 .. Len(rt.adds) :
        LET newCard == rt.adds[k]
        IN  /\ srsCards' = Append(srsCards, newCard)
            /\ dueCards' = IF newCard.next_review <= now
                           THEN Append(dueCards, newCard)
                           ELSE dueCards
            /\ rt' = [rt EXCEPT !.adds = RemoveAt(@, k)]
            /\ UNCHANGED <<now, sm2, sel, pred, adj, timing, meta, coord, recorded,
                           storeVars, error, reviewed, reviewCalls, lastReview>>

\* reviewCard up to its first await: the card is read from the hook's list and the
\* request to the store is made from it
reviewCardBegin ==
    /\ Len(rt.calls) < MaxLiveReviews
    /\ \E cardId \in 1 .. MaxCards, quality \in LiveQualities :
          LET found == FindCard(srsCards, cardId)
              responseTime == LiveResponseTime
          IN  /\ found # << >>
              /\ rt' = [rt EXCEPT !.calls =
                           Append(@, [cardId |-> cardId, quality |-> quality,
                                      responseTime |-> responseTime, card |-> found[1],
                                      at |-> now, updatedCard |-> << >>,
                                      stage |-> "updateSRSCard"])]
    /\ UNCHANGED <<now, sm2, sel, pred, adj, timing, meta, coord, recorded, storeVars,
                   hookVars>>

\* the store runs the updateSRSCard request of a reviewCard call and sends the UPDATE
\* event of the changed row
reviewCardUpdate ==
    \E k \in 1 .. Len(rt.calls) :
        LET call == rt.calls[k]
            sm2Result == calculateSM2(call.quality, call.card.repetitions,
                                      call.card.ease_factor, call.card.interval)
            updated == updateSRSCard(call.cardId,
                           [interval |-> sm2Result.interval,
                            repetitions |-> sm2Result.repetitions,
                            easeFactor |-> sm2Result.easeFactor,
                            last_reviewed |-> call.at,
                            next_review |-> call.at + sm2Result.interval],
                           TRUE)
        IN  /\ call.stage = "updateSRSCard"
            /\ srs_cards' = updated.table
            /\ rt' = [rt EXCEPT
                        !.calls[k].updatedCard = updated.data,
                        !.calls[k].stage = "updateUserPerformance",
                        !.events = IF updated.data = << >> THEN @
                                   ELSE Append(@, Event("UPDATE", updated.data[1]))]
            /\ UNCHANGED <<now, sm2, sel, pred, adj, timing, meta, coord, recorded,
                           user_performance, strictColumns, hookVars>>

\* the rest of reviewCard: updateUserPerformance, then the hook's lists
reviewCardResume ==
    \E k \in 1 .. Len(rt.calls) :
        LET call == rt.calls[k]
            performance == updateUserPerformance(call.card.content_type,
                               call.card.content_id, call.quality >= 3,
                               call.responseTime, TRUE, TRUE)
        IN  /\ call.stage = "updateUserPerformance"
            /\ user_performance' = performance.table
            /\ IF call.updatedCard # << >>
               THEN /\ srsCards' = MapReplace(srsCards, call.cardId, call.updatedCard[1])
                    /\ dueCards' = FilterOut(dueCards, call.cardId)
               ELSE UNCHANGED <<srsCards, dueCards>>
            /\ rt' = [rt EXCEPT !.calls[k].stage = "returned"]
            /\ UNCHANGED <<now, sm2, sel, pred, adj, timing, meta, coord, recorded,
                           srs_cards, strictColumns, error, reviewed, reviewCalls,
                           lastReview>>

\* another client of the store (a second tab of the user) deletes a card
deleteByOtherClient ==
    \E id \in LiveRows(srs_cards) :
        /\ Len(srs_cards) - Cardinality(LiveRows(srs_cards)) < MaxDeletes
        /\ srs_cards' = deleteSRSCard(id, TRUE).table
        /\ rt' = [rt EXCEPT !.events = Append(@, Event("DELETE", srs_cards[id]))]
        /\ UNCHANGED <<now, sm2, sel, pred, adj, timing, meta, coord, recorded,
                       user_performance, strictColumns, hookVars>>

\* the subscription's handler of INSERT
onInsert ==
    /\ rt.events # << >>
    /\ Head(rt.events).event = "INSERT"
    /\ LET new == Head(rt.events).row
       IN  /\ srsCards' = Append(srsCards, new)
           /\ dueCards' = IF new.next_review <= now THEN Append(dueCards, new)
                          ELSE dueCards
    /\ rt' = [rt EXCEPT !.events = Tail(@)]
    /\ UNCHANGED <<now, sm2, sel, pred, adj, timing, meta, coord, recorded, storeVars,
                   error, reviewed, reviewCalls, lastReview>>

\* the subscription's handler of UPDATE
onUpdate ==
    /\ rt.events # << >>
    /\ Head(rt.events).event = "UPDATE"
    /\ LET new == Head(rt.events).row
       IN  /\ srsCards' = MapReplace(srsCards, new.id, new)
           /\ dueCards' = MapReplace(dueCards, new.id, new)
    /\ rt' = [rt EXCEPT !.events = Tail(@)]
    /\ UNCHANGED <<now, sm2, sel, pred, adj, timing, meta, coord, recorded, storeVars,
                   error, reviewed, reviewCalls, lastReview>>

\* the subscription's handler of DELETE
onDelete ==
    /\ rt.events # << >>
    /\ Head(rt.events).event = "DELETE"
    /\ LET old == Head(rt.events).row
       IN  /\ srsCards' = FilterOut(srsCards, old.id)
           /\ dueCards' = FilterOut(dueCards, old.id)
    /\ rt' = [rt EXCEPT !.events = Tail(@)]
    /\ UNCHANGED <<now, sm2, sel, pred, adj, timing, meta, coord, recorded, storeVars,
                   error, reviewed, reviewCalls, lastReview>>

\* the hook is mounted on a store that holds one new card of the user
RtInit ==
    /\ now = 0
    /\ strictColumns \in BOOLEAN
    /\ srs_cards = StoreInsert(<< >>, NewCard(<< "character", 1 >>), TRUE).table
    /\ user_performance = << >>
    /\ rt = [RtIdle EXCEPT !.fetch = "cards"]
    /\ recorded = RecordedIdle
    /\ sm2 = SM2Idle
    /\ sel = SelIdle
    /\ pred = PredIdle
    /\ adj = AdjIdle
    /\ timing = TimingIdle
    /\ meta = MetaIdle
    /\ coord = CoordIdle
    /\ HookIdle

RtNext ==
    \/ fetchUserCards
    \/ fetchDueCards
    \/ addToSRSInsert
    \/ addToSRSResume
    \/ reviewCardBegin
    \/ reviewCardUpdate
    \/ reviewCardResume
    \/ deleteByOtherClient
    \/ onInsert
    \/ onUpdate
    \/ onDelete

SpecRealtime == RtInit /\ [][RtNext]_vars

----------------------------------------------------------------------------
(* The item selector (ItemSelector).  A score is a JavaScript number: NaN  *)
(* or a value, held in units of 1/10000 (the weights in hundredths times   *)
(* the factors in hundredths).  An optional value is << >> (undefined) or  *)
(* <<v>>.  Dates are days.                                                 *)

NaN == << >>
Num(v) == << v >>

\* priorityFactors, in hundredths
DueForReviewWeight == 30
UserWeaknessWeight == 25
CurriculumPriorityWeight == 20
VarietyBalanceWeight == 15
NoveltyPreferenceWeight == 10

Max(a, b) == IF a >= b THEN a ELSE b
Min(a, b) == IF a <= b THEN a ELSE b

\* a + b of two JavaScript numbers
NumAdd(a, b) == IF a = NaN \/ b = NaN THEN NaN ELSE Num(a[1] + b[1])

\* the weakness score, in hundredths; itemPerformance[id] is << >> or <<accuracy>>, the
\* accuracy a number held in hundredths (0.4 is 40, and 100 is 10000)
calculateWeaknessScore(item, userData) ==
    LET baseWeakness ==
            IF item.contentType = "character" THEN userData.characterWeakness
            ELSE IF item.contentType = "word" THEN userData.wordWeakness
            ELSE userData.grammarWeakness
        itemPerformance == userData.itemPerformance[item.id]
    IN  IF itemPerformance # << >>
        THEN Min(100 * 100, baseWeakness * 100 + (100 - itemPerformance[1]) * 30)
        ELSE baseWeakness * 100

\* the variety score, in hundredths
calculateVarietyScore(item, recentItems) ==
    LET similarCount ==
            Cardinality({ i \in 1 .. Len(recentItems) : recentItems[i] = item.contentType })
    IN  100 * Max(0, 30 - similarCount * 10)

\* item.curriculumPriority || 50: a missing priority and a priority of 0 both give 50
calculateItemPriority(item, userData) ==
    LET due ==
            IF item.isDueForReview
            THEN Num(DueForReviewWeight * 100 * 100)
            ELSE IF item.nextReviewDate = << >>
                 THEN NaN
                 ELSE LET daysUntilDue == item.nextReviewDate[1] - now
                      IN  Num(DueForReviewWeight * 100 * Max(0, 50 - daysUntilDue))
        weakness == Num(UserWeaknessWeight * calculateWeaknessScore(item, userData))
        curriculum ==
            Num(CurriculumPriorityWeight * 100 *
                (IF item.curriculumPriority = 0 THEN 50 ELSE item.curriculumPriority))
        variety == Num(VarietyBalanceWeight * calculateVarietyScore(item, userData.recentItems))
        novelty ==
            IF userData.preferNovelty
            THEN Num(NoveltyPreferenceWeight * 100 * (IF item.isNew THEN 20 ELSE 0))
            ELSE Num(0)
    IN  NumAdd(NumAdd(NumAdd(NumAdd(due, weakness), curriculum), variety), novelty)

\* the comparator (a, b) => b.priorityScore - a.priorityScore, as sort reads it:
\* negative, zero or positive, and a NaN result counts as 0
Compare(a, b) ==
    IF a.priorityScore = NaN \/ b.priorityScore = NaN THEN 0
    ELSE IF b.priorityScore[1] < a.priorityScore[1] THEN -1
    ELSE IF b.priorityScore[1] > a.priorityScore[1] THEN 1
    ELSE 0

(* Array.prototype.sort as V8 runs it on an array shorter than 64 elements *)
(* (TimSort: the leading run is found, reversed when strictly descending,  *)
(* and the rest is inserted by binary insertion).  With a comparator that  *)
(* is a consistent order this is the stable sort; with NaN scores the      *)
(* result is whatever these steps leave.                                   *)

RECURSIVE RunEnd(_, _, _)
RunEnd(a, idx, isDescending) ==
    IF idx > Len(a) THEN idx - 1
    ELSE LET order == Compare(a[idx], a[idx - 1])
         IN  IF (isDescending /\ order >= 0) \/ (~isDescending /\ order < 0)
             THEN idx - 1
             ELSE RunEnd(a, idx + 1, isDescending)

ReverseRange(a, n) == [i \in 1 .. Len(a) |-> IF i <= n THEN a[n + 1 - i] ELSE a[i]]

RECURSIVE BinarySearch(_, _, _, _)
BinarySearch(a, pivot, left, right) ==
    IF left >= right THEN left
    ELSE LET mid == left + ((right - left) \div 2)
         IN  IF Compare(pivot, a[mid]) < 0
             THEN BinarySearch(a, pivot, left, mid)
             ELSE BinarySearch(a, pivot, mid + 1, right)

\* a[start] moved to position pos <= start
MoveTo(a, start, pos) ==
    [i \in 1 .. Len(a) |->
        IF i < pos \/ i > start THEN a[i]
        ELSE IF i = pos THEN a[start]
        ELSE a[i - 1]]

RECURSIVE BinaryInsertionSort(_, _)
BinaryInsertionSort(a, start) ==
    IF start > Len(a) THEN a
    ELSE BinaryInsertionSort(MoveTo(a, start, BinarySearch(a, a[start], 1, start)),
                             start + 1)

ArraySort(a) ==
    IF Len(a) < 2 THEN a
    ELSE LET isDescending == Compare(a[2], a[1]) < 0
             runLength == RunEnd(a, 3, isDescending)
             run == IF isDescending THEN ReverseRange(a, runLength) ELSE a
         IN  BinaryInsertionSort(run, runLength + 1)

\* a.slice(0, end)
Slice(a, end) ==
    LET k == IF end < 0 THEN Max(Len(a) + end, 0) ELSE Min(end, Len(a))
    IN  SubSeq(a, 1, k)

\* the candidates with their scores, sorted, cut to itemCount
selectStudyItems(userData, candidateItems, itemCount) ==
    LET scoredItems ==
            [i \in 1 .. Len(candidateItems) |->
                [f \in DOMAIN candidateItems[i] \cup {"priorityScore"} |->
                    IF f = "priorityScore"
                    THEN calculateItemPriority(candidateItems[i], userData)
                    ELSE candidateItems[i][f]]]
    IN  Slice(ArraySort(scoredItems), itemCount)

----------------------------------------------------------------------------
(* Selector harness: getUserLearningData and getCandidateItems answer with *)
(* one of a few user states and candidate pools, the same on every call;   *)
(* selectStudyItems is called up to MaxSelectCalls times while days pass.  *)

Item(type, isDue, nextReviewDate, priority, isNew) ==
    [id |-> 0, contentType |-> type, isDueForReview |-> isDue,
     nextReviewDate |-> nextReviewDate, curriculumPriority |-> priority, isNew |-> isNew]

\* the three items of getCandidateItems, two items not yet due, a new item of no
\* priority, and the second item of getCandidateItems when it is due and when it is
\* due in 40 days
ItemShapes ==
    { Item("character", TRUE, << >>, 80, FALSE),
      Item("word", FALSE, << >>, 60, FALSE),
      Item("grammar", TRUE, << >>, 90, FALSE),
      Item("word", FALSE, << 50 >>, 50, FALSE),
      Item("word", FALSE, << 70 >>, 51, FALSE),
      Item("grammar", TRUE, << >>, 0, TRUE),
      Item("word", TRUE, << >>, 60, FALSE),
      Item("word", FALSE, << 40 >>, 60, FALSE) }

\* the pools: every sequence of at most MaxPool items, item i with id i
CandidatePools ==
    UNION { { [i \in 1 .. n |-> [shapes[i] EXCEPT !.id = i]] :
                shapes \in [1 .. n -> ItemShapes] } : n \in 0 .. MaxPool }

\* the user of getUserLearningData, a user with a history whose item accuracy is the
\* fraction 0.4, and a user whose item accuracy is the accuracy_rate of the item's
\* user_performance row after one correct attempt (100, a percentage)
UserStates ==
    { [characterWeakness |-> 25, wordWeakness |-> 15, grammarWeakness |-> 30,
       preferNovelty |-> TRUE, recentItems |-> << >>,
       itemPerformance |-> [i \in 1 .. MaxPool |-> << >>]],
      [characterWeakness |-> 90, wordWeakness |-> 0, grammarWeakness |-> 100,
       preferNovelty |-> FALSE, recentItems |-> << "word", "word", "grammar" >>,
       itemPerformance |-> [i \in 1 .. MaxPool |-> IF i = 1 THEN << 40 >> ELSE << >>]],
      [characterWeakness |-> 25, wordWeakness |-> 15, grammarWeakness |-> 30,
       preferNovelty |-> TRUE, recentItems |-> << >>,
       itemPerformance |->
           [i \in 1 .. MaxPool |->
               IF i = 1
               THEN << InitialAccuracyRate(TRUE) >>
               ELSE << >>]] }

ItemCounts == -1 .. MaxPool + 1

SelInit ==
    /\ \E u \in UserStates, c \in CandidatePools, n \in ItemCounts :
          sel = [SelIdle EXCEPT !.userData = u, !.candidateItems = c, !.itemCount = n]
    /\ now = 0
    /\ sm2 = SM2Idle
    /\ pred = PredIdle
    /\ EngineIdle
    /\ StoreIdle
    /\ HookIdle

CallSelectStudyItems ==
    /\ sel.calls < MaxSelectCalls
    /\ sel' = [sel EXCEPT
                 !.calls = @ + 1,
                 !.previous = sel.result,
                 !.scoredAt = now,
                 !.result = selectStudyItems(sel.userData, sel.candidateItems,
                                             sel.itemCount)]
    /\ UNCHANGED <<now, sm2, pred, engineVars, storeVars, hookVars>>

----------------------------------------------------------------------------
(* The retention predictor (RetentionPredictor).  Features and weights are *)
(* held in hundredths, so the logit is in units of 1/10000; Math.exp takes *)
(* its argument in thousandths and answers in thousandths; a probability   *)
(* is held in millionths.                                                  *)

\* modelWeights, in hundredths
TimeSinceLastReviewWeight == -5
EaseFactorWeight == 30
UserHistoricalAccuracyWeight == 40
ContentDifficultyWeight == -20
DailyLoadFactorWeight == -10

\* IEEE doubles: Math.exp(x) is Infinity above 709.782 and is 0 below -745.133
ExpOverflow == 709782
ExpUnderflow == -745133

\* the fixed point holds e^x, in thousandths, up to x = ExpRange / 1000
ExpRange == 14000

\* e^k in thousandths, k = 0 .. 14
ExpTable ==
    << 1000, 2718, 7389, 20086, 54598, 148413, 403429, 1096633, 2980958, 8103084,
       22026466, 59874142, 162754791, 442413392, 1202604284 >>

\* e^(f/1000) in millionths for 0 <= f < 1000: the Taylor series, n terms after `term`
RECURSIVE ExpSeries(_, _, _)
ExpSeries(f, n, term) ==
    IF n > 12 \/ term = 0 THEN 0
    ELSE term + ExpSeries(f, n + 1, (term * f) \div ((n + 1) * 1000))

\* e^(x/1000) in thousandths for 0 <= x <= ExpRange
ExpFixed(x) ==
    LET whole == ExpTable[(x \div 1000) + 1]
        frac == ExpSeries(x % 1000, 0, 1000000) \div 1000
    IN  (whole \div 1000) * frac + ((whole % 1000) * frac) \div 1000

\* Math.exp(x / 1000): Infinity, or a value >= 0 in thousandths (beyond the range of the
\* fixed point the value is the nearest one it holds)
MathExp(x) ==
    IF x > ExpOverflow THEN [inf |-> TRUE, v |-> 0]
    ELSE IF x < ExpUnderflow THEN [inf |-> FALSE, v |-> 0]
    ELSE IF x >= 0 THEN [inf |-> FALSE, v |-> ExpFixed(Min(x, ExpRange))]
    ELSE [inf |-> FALSE, v |-> 1000000 \div ExpFixed(Min(-x, ExpRange))]

\* the linear combination of the features, in units of 1/10000
Logit(itemData) ==
    TimeSinceLastReviewWeight * itemData.timeSinceLastReview
    + EaseFactorWeight * itemData.easeFactor
    + UserHistoricalAccuracyWeight * itemData.userHistoricalAccuracy
    + ContentDifficultyWeight * itemData.contentDifficulty
    + DailyLoadFactorWeight * itemData.dailyLoadFactor

\* predictRecallProbability without the sigmoid: the logit itself is returned
predictRecallProbability_NoSigmoid(itemData) == Logit(itemData)

\* 1 / (1 + Math.exp(-logit)), in millionths
predictRecallProbability(itemData) ==
    LET logit == Logit(itemData)
        e == MathExp((0 - logit) \div 10)
    IN  IF e.inf THEN 0 ELSE 1000000000 \div (1000 + e.v)

(* Predictor harness: one call on a feature vector whose components range  *)
(* over small, large, negative and ordinary values (in hundredths).        *)

FeatureValues == { -1000000, -100, 0, 80, 250, 10000, 1000000 }

PredInit ==
    /\ \E t \in FeatureValues, ef \in FeatureValues, acc \in FeatureValues,
          diff \in FeatureValues, load \in FeatureValues :
          pred = [PredIdle EXCEPT !.itemData =
                     [timeSinceLastReview |-> t, easeFactor |-> ef,
                      userHistoricalAccuracy |-> acc, contentDifficulty |-> diff,
                      dailyLoadFactor |-> load]]
    /\ now = 0
    /\ sm2 = SM2Idle
    /\ sel = SelIdle
    /\ EngineIdle
    /\ StoreIdle
    /\ HookIdle

CallPredictRecallProbability ==
    /\ ~pred.called
    /\ pred' = [pred EXCEPT !.called = TRUE,
                            !.probability = predictRecallProbability(pred.itemData)]
    /\ UNCHANGED <<now, sm2, sel, engineVars, storeVars, hookVars>>

----------------------------------------------------------------------------
(* The review-timing search (RetentionPredictor.recommendReviewTiming).    *)
(* The bracket [low, high] starts as [0.1, 365] and is halved at most      *)
(* MaxIterations times, so every bound and every midpoint is               *)
(* 0.1 + m * 364.9 / 2^MaxIterations days for a whole m, the position.     *)
(* The search is carried out on positions; a position is turned into days  *)
(* (in hundredths, as the features are) for the predictor and for the      *)
(* result.  The target retention is held in millionths.                    *)

MaxIterations == 20
SearchLow == 1              \* 0.1 days, in tenths
SearchHigh == 3650          \* 365 days, in tenths
DefaultTargetRetention == 800000
ConvergenceThreshold == 10000       \* 0.01, in millionths

Grid == 2 ^ MaxIterations
GridRoot == 2 ^ (MaxIterations \div 2)

\* the days at position m, in hundredths (rounded down); the product is taken in two
\* halves to stay within the integers
DaysAt(m) ==
    LET span == (SearchHigh - SearchLow) * 10
    IN  SearchLow * 10
        + ((m \div GridRoot) * span + ((m % GridRoot) * span) \div GridRoot) \div GridRoot

Abs(x) == IF x < 0 THEN 0 - x ELSE x

\* the while loop: `days` is the position of the last midpoint computed
RECURSIVE Bisect(_, _, _, _, _, _)
Bisect(itemData, targetRetention, low, high, days, iterations) ==
    IF iterations >= MaxIterations
    THEN [days |-> days, low |-> low, high |-> high, iterations |-> iterations,
          converged |-> FALSE]
    ELSE LET mid == (low + high) \div 2
             estimatedData == [itemData EXCEPT !.timeSinceLastReview = DaysAt(mid)]
             recallProb == predictRecallProbability(estimatedData)
         IN  IF Abs(recallProb - targetRetention) < ConvergenceThreshold
             THEN [days |-> mid, low |-> low, high |-> high, iterations |-> iterations,
                   converged |-> TRUE]
             ELSE IF recallProb > targetRetention
                  THEN Bisect(itemData, targetRetention, mid, high, mid, iterations + 1)
                  ELSE Bisect(itemData, targetRetention, low, mid, mid, iterations + 1)

\* the search and its answer Math.round(days), in whole days
recommendReviewTiming(itemData, targetRetention) ==
    LET search == Bisect(itemData, targetRetention, 0, Grid, 0, 0)
    IN  [days |-> MathRound(DaysAt(search.days), 100),
         low |-> DaysAt(search.low),
         high |-> DaysAt(search.high),
         iterations |-> search.iterations,
         converged |-> search.converged]

(* Timing harness: one call on features for which the recall probability   *)
(* stays above the target, stays below it, or crosses it within the year.  *)

TimingEaseFactors == { MinEaseFactor, DefaultEaseFactor }
TimingAccuracies == { 0, 82, 800, 8200 }        \* 0, 0.82, 8 and 82
TimingDifficulties == { 0, 100, 5000 }          \* 0, 1 and 50
TimingLoads == { 0, 100 }
TargetRetentions == { 500000, DefaultTargetRetention, 950000 }

TimingInit ==
    /\ \E ef \in TimingEaseFactors, acc \in TimingAccuracies, diff \in TimingDifficulties,
          load \in TimingLoads, target \in TargetRetentions :
          timing = [TimingIdle EXCEPT
                      !.itemData = [timeSinceLastReview |-> 0, easeFactor |-> ef,
                                    userHistoricalAccuracy |-> acc,
                                    contentDifficulty |-> diff, dailyLoadFactor |-> load,
                                    currentInterval |-> 1],
                      !.targetRetention = target]
    /\ now = 0
    /\ sm2 = SM2Idle
    /\ sel = SelIdle
    /\ pred = PredIdle
    /\ adj = AdjIdle
    /\ meta = MetaIdle
    /\ coord = CoordIdle
    /\ recorded = RecordedIdle
    /\ rt = RtIdle
    /\ StoreIdle
    /\ HookIdle

CallRecommendReviewTiming ==
    /\ ~timing.called
    /\ timing' = [timing EXCEPT
                    !.called = TRUE,
                    !.result = << recommendReviewTiming(timing.itemData,
                                                        timing.targetRetention) >>]
    /\ UNCHANGED <<now, sm2, sel, pred, adj, meta, coord, recorded, rt, storeVars, hookVars>>

TimingNext == CallRecommendReviewTiming

SpecTiming == TimingInit /\ [][TimingNext]_vars

----------------------------------------------------------------------------
(* The difficulty adjuster (DifficultyAdjuster).  An accuracy is held in   *)
(* thousandths, a time in milliseconds, an adjustment in hundredths.  A    *)
(* field the code leaves out of `adjustments` is << >>.                    *)

\* performanceThresholds, in thousandths
EasyThreshold == 900
HardThreshold == 500

\* responseTime < item.averageTime * 0.7 is false when the item has no averageTime (NaN)
calculateDifficultyIncrease(item, performanceData) ==
    LET increase ==
            10
            + (IF performanceData.accuracy > 950 THEN 5 ELSE 0)
            + (IF /\ item.averageTime # << >>
                  /\ 10 * performanceData.responseTime < 7 * item.averageTime[1]
               THEN 5 ELSE 0)
    IN  Min(30, increase)

\* calculateDifficultyDecrease with a base of 0.25 and no cap
calculateDifficultyDecrease_Uncapped(item, performanceData) ==
    25
    + (IF performanceData.accuracy < 300 THEN 10 ELSE 0)
    + (IF /\ item.averageTime # << >>
          /\ 2 * performanceData.responseTime > 3 * item.averageTime[1]
       THEN 10 ELSE 0)

calculateDifficultyDecrease(item, performanceData) ==
    LET decrease ==
            15
            + (IF performanceData.accuracy < 300 THEN 10 ELSE 0)
            + (IF /\ item.averageTime # << >>
                  /\ 2 * performanceData.responseTime > 3 * item.averageTime[1]
               THEN 10 ELSE 0)
    IN  Min(40, decrease)

calculateTimePressureAdjustment_Inclusive(performanceData) ==
    IF performanceData.previousAverageTime = 0 THEN 0
    ELSE IF performanceData.responseTime >= 2 * performanceData.previousAverageTime THEN -10
    ELSE IF 2 * performanceData.responseTime <= performanceData.previousAverageTime THEN 10
    ELSE 0

\* previousAverageTime 0 stands for a missing or zero average (!previousAverageTime)
calculateTimePressureAdjustment(performanceData) ==
    IF performanceData.previousAverageTime = 0 THEN 0
    ELSE IF performanceData.responseTime > 2 * performanceData.previousAverageTime THEN -10
    ELSE IF 2 * performanceData.responseTime < performanceData.previousAverageTime THEN 10
    ELSE 0

\* { ...item, ...adjustments, lastAdjusted: new Date() }
adjustItemDifficulty(item, performanceData) ==
    Spread(item,
        [difficultyIncrease |->
             IF performanceData.accuracy >= EasyThreshold
             THEN << calculateDifficultyIncrease(item, performanceData) >>
             ELSE << >>,
         difficultyDecrease |->
             IF /\ performanceData.accuracy < EasyThreshold
                /\ performanceData.accuracy <= HardThreshold
             THEN << calculateDifficultyDecrease(item, performanceData) >>
             ELSE << >>,
         timePressure |->
             IF performanceData.attempts > 1
             THEN << calculateTimePressureAdjustment(performanceData) >>
             ELSE << >>,
         lastAdjusted |-> now])

(* Adjuster harness: one call on a sample whose accuracy lies on, next to  *)
(* and between the thresholds, and whose response time lies on either side *)
(* of 0.5, 0.7, 1.5 and 2 times the average.                               *)

Accuracies == { 0, 299, 300, 500, 501, 899, 900, 950, 951, 1000 }
SampleTimes == { 0, 4000, 5000, 6999, 7000, 15000, 15001, 20000, 20001 }
AverageTimes == { 0, 10000 }        \* 0: the item has no average yet

AdjInit ==
    /\ \E accuracy \in Accuracies, responseTime \in SampleTimes,
          averageTime \in AverageTimes, previousAverageTime \in AverageTimes,
          attempts \in 1 .. 2 :
          adj = [AdjIdle EXCEPT
                   !.item = [averageTime |-> IF averageTime = 0 THEN << >>
                                             ELSE << averageTime >>],
                   !.performanceData =
                       [accuracy |-> accuracy, responseTime |-> responseTime,
                        attempts |-> attempts,
                        previousAverageTime |-> previousAverageTime]]
    /\ now = 0
    /\ sm2 = SM2Idle
    /\ sel = SelIdle
    /\ pred = PredIdle
    /\ timing = TimingIdle
    /\ meta = MetaIdle
    /\ coord = CoordIdle
    /\ recorded = RecordedIdle
    /\ rt = RtIdle
    /\ StoreIdle
    /\ HookIdle

CallAdjustItemDifficulty ==
    /\ ~adj.called
    /\ adj' = [adj EXCEPT !.called = TRUE,
                          !.result = << adjustItemDifficulty(adj.item, adj.performanceData) >>]
    /\ UNCHANGED <<now, sm2, sel, pred, timing, meta, coord, recorded, rt, storeVars, hookVars>>

AdjNext == CallAdjustItemDifficulty \/ Tick

SpecAdjuster == AdjInit /\ [][AdjNext]_vars

----------------------------------------------------------------------------
(* The content metadata manager (ContentMetadataManager).                  *)
(* getContentMetadata is an async function: it looks the key up, and on a  *)
(* miss awaits fetchContentMetadata before it stores the enhanced metadata *)
(* and returns; other calls run between the lookup and the store.  A call  *)
(* is therefore two steps, its beginning (lookup, and on a miss the fetch) *)
(* and, on a miss, its end (enhance, store, return).  meta.clock counts    *)
(* the steps, so that a call is known to begin after another has returned. *)
(* An optional content id is << >> (undefined) or <<id>>.                  *)

\* `${contentType}-${contentId}`: for the content types of the schema and a numeric or
\* missing id the string is determined by, and determines, the pair
CacheKey(contentType, contentId) == << contentType, contentId >>

\* Math.floor(Math.random() * 1000) + 1: any rank in 1..1000; the two ends
FrequencyRanks == { 1, 1000 }

\* difficultyMap[contentType]?.[contentId] || 50
calculateBaseDifficulty(contentType, contentId) ==
    IF contentId = << >> \/ contentId[1] \notin 1 .. 3 THEN 50
    ELSE IF contentType = "character" THEN << 10, 25, 50 >>[contentId[1]]
    ELSE IF contentType = "word" THEN << 15, 35, 65 >>[contentId[1]]
    ELSE IF contentType = "grammar" THEN << 20, 50, 80 >>[contentId[1]]
    ELSE 50

\* the mock row; frequencyRank is what getFrequencyRank drew
fetchContentMetadata(contentType, contentId, frequencyRank) ==
    [id |-> contentId,
     type |-> contentType,
     baseDifficulty |-> calculateBaseDifficulty(contentType, contentId),
     frequencyRank |-> frequencyRank,
     prerequisiteItems |-> << >>]

\* Math.round(difficulty * 0.5 + max(0, 100 - rank / 10) * 0.3 + prerequisites * 5 * 0.2)
calculateComplexityScore(metadata) ==
    MathRound(50 * metadata.baseDifficulty
              + 3 * Max(0, 1000 - metadata.frequencyRank)
              + 100 * Len(metadata.prerequisiteItems),
              100)

\* the derived metrics that depend on the row; the others are constants of the code
enhanceMetadata(baseMetadata) ==
    [f \in DOMAIN baseMetadata \cup {"complexityScore"} |->
        IF f = "complexityScore" THEN calculateComplexityScore(baseMetadata)
        ELSE baseMetadata[f]]

\* metadataCache.set(key, value)
MapSet(map, key, value) ==
    [k \in DOMAIN map \cup {key} |-> IF k = key THEN value ELSE map[k]]

\* the beginning of a call: a hit returns the cached value at once, a miss fetches
MetaBegin(m, contentType, contentId, frequencyRank) ==
    LET cacheKey == CacheKey(contentType, contentId)
        t == m.clock + 1
    IN  IF cacheKey \in DOMAIN m.cache
        THEN [m EXCEPT
                !.clock = t,
                !.calls = Append(@, [key |-> cacheKey, began |-> t, returned |-> t,
                                     computed |-> FALSE, fetched |-> << >>,
                                     value |-> << m.cache[cacheKey] >>])]
        ELSE [m EXCEPT
                !.clock = t,
                !.calls = Append(@, [key |-> cacheKey, began |-> t, returned |-> 0,
                                     computed |-> TRUE,
                                     fetched |-> << fetchContentMetadata(contentType,
                                                        contentId, frequencyRank) >>,
                                     value |-> << >>])]

\* the end of call i after a miss: enhance, store, return
MetaEnd(m, i) ==
    LET enhancedMetadata == enhanceMetadata(m.calls[i].fetched[1])
        t == m.clock + 1
    IN  [m EXCEPT
           !.clock = t,
           !.cache = MapSet(@, m.calls[i].key, enhancedMetadata),
           !.calls[i].returned = t,
           !.calls[i].value = << enhancedMetadata >>]

(* Metadata harness: up to MaxMetaCalls calls, for a few items, by callers  *)
(* that do not wait for each other.                                        *)

MetaTypes == { "character", "word" }
MetaIds == { << >>, << 1 >>, << 2 >> }

MetaInit ==
    /\ meta = MetaIdle
    /\ now = 0
    /\ sm2 = SM2Idle
    /\ sel = SelIdle
    /\ pred = PredIdle
    /\ adj = AdjIdle
    /\ timing = TimingIdle
    /\ coord = CoordIdle
    /\ recorded = RecordedIdle
    /\ rt = RtIdle
    /\ StoreIdle
    /\ HookIdle

BeginGetContentMetadata ==
    /\ Len(meta.calls) < MaxMetaCalls
    /\ \E contentType \in MetaTypes, contentId \in MetaIds, frequencyRank \in FrequencyRanks :
          meta' = MetaBegin(meta, contentType, contentId, frequencyRank)
    /\ UNCHANGED <<now, sm2, sel, pred, adj, timing, coord, recorded, rt, storeVars, hookVars>>

EndGetContentMetadata ==
    /\ \E i \in 1 .. Len(meta.calls) :
          /\ meta.calls[i].returned = 0
          /\ meta' = MetaEnd(meta, i)
    /\ UNCHANGED <<now, sm2, sel, pred, adj, timing, coord, recorded, rt, storeVars, hookVars>>

MetaNext == BeginGetContentMetadata \/ EndGetContentMetadata

SpecMetadata == MetaInit /\ [][MetaNext]_vars

----------------------------------------------------------------------------
(* The coordinator (LearningEngineCoordinator).  Its database helpers are  *)
(* stubs that answer fixed rows and log what they are given; the model     *)
(* keeps what updateUserPerformance and updateLearningItem are handed, in  *)
(* order, as the state committed to storage.  The candidates come from     *)
(* ItemSelector.getCandidateItems, which stands for a database query: the  *)
(* model lets it answer any pool of up to MaxSessionPool of its items.     *)

DefaultItemCount == 20

\* ItemSelector.getUserLearningData
SelectorUserLearningData ==
    [characterWeakness |-> 25, wordWeakness |-> 15, grammarWeakness |-> 30,
     preferNovelty |-> TRUE, recentItems |-> << >>,
     itemPerformance |-> [i \in 1 .. MaxPool |-> << >>]]

getUserLearningState ==
    [currentStreak |-> 5, totalItemsStudied |-> 250, accuracyRate |-> 82, jlptLevel |-> 3]

getLearningItemData ==
    [repetitions |-> 2, interval |-> 5, easeFactor |-> DefaultEaseFactor,
     lastReviewed |-> now - 5, attempts |-> 2, averageTime |-> << 15000 >>]

getUserLearningData == [accuracyRate |-> 82, totalReviews |-> 500]

\* a candidate item as getCandidateItems writes it: no contentId, no nextReviewDate
CoordItem(type, isDue, priority) ==
    [id |-> 0, contentType |-> type, contentId |-> << >>, isDueForReview |-> isDue,
     nextReviewDate |-> << >>, curriculumPriority |-> priority, isNew |-> FALSE]

CoordItemShapes ==
    { CoordItem("character", TRUE, 80),
      CoordItem("word", FALSE, 60),
      CoordItem("grammar", TRUE, 90) }

CoordPools ==
    UNION { { [i \in 1 .. n |-> [shapes[i] EXCEPT !.id = i]] :
                shapes \in [1 .. n -> CoordItemShapes] } : n \in 0 .. MaxSessionPool }

\* sessionOptions.itemCount: missing, 0, 1
SessionItemCounts == { << >>, << 0 >>, << 1 >> }

\* the responses the coordinator is driven with: a valid and an invalid quality, on one
\* item, answered in a third of its average time
ResponseQualities == { 4, MaxQuality + 1 }
ResponseContent == << "word", << 1 >> >>
ResponseTime == 5000

\* Promise.all over the selected items: every getContentMetadata call begins, in
\* order, before any of them resumes after its await
RECURSIVE MetaBeginAll(_, _, _, _)
MetaBeginAll(m, items, frequencyRanks, i) ==
    IF i > Len(items) THEN m
    ELSE MetaBeginAll(MetaBegin(m, items[i].contentType, items[i].contentId,
                                frequencyRanks[i]),
                      items, frequencyRanks, i + 1)

\* and then the calls that missed resume, in the order they began
RECURSIVE MetaEndAll(_, _)
MetaEndAll(m, i) ==
    IF i > Len(m.calls) THEN m
    ELSE MetaEndAll(IF m.calls[i].returned = 0 THEN MetaEnd(m, i) ELSE m, i + 1)

\* the id is `session_${Date.now()}`; the model numbers the sessions
createStudySessionRecord(items) ==
    [id |-> Len(coord.sessions) + 1,
     items |-> [i \in 1 .. Len(items) |-> items[i].id],
     startedAt |-> now]

generateSessionRecommendations(userState, items) ==
    [itemCount |-> Len(items), estimatedTime |-> MathRound(Len(items) * 25, 10)]

initializeStudySession ==
    /\ Len(coord.sessions) < MaxSessions
    /\ \E itemCount \in SessionItemCounts,
          frequencyRanks \in [1 .. MaxSessionPool -> FrequencyRanks] :
          LET userState == getUserLearningState
              selectedItems ==
                  selectStudyItems(SelectorUserLearningData, coord.candidateItems,
                                   IF itemCount = << >> \/ itemCount[1] = 0
                                   THEN DefaultItemCount ELSE itemCount[1])
              first == Len(meta.calls)
              fetched == MetaEndAll(MetaBeginAll(meta, selectedItems, frequencyRanks, 1),
                                    first + 1)
              enhancedItems ==
                  [i \in 1 .. Len(selectedItems) |->
                      Spread(selectedItems[i],
                             [metadata |-> fetched.calls[first + i].value[1]])]
              session == createStudySessionRecord(enhancedItems)
          IN  /\ meta' = fetched
              /\ coord' = [coord EXCEPT !.sessions =
                              Append(@, [sessionId |-> session.id,
                                         items |-> enhancedItems,
                                         userState |-> userState,
                                         recommendations |->
                                             generateSessionRecommendations(userState,
                                                                            enhancedItems)])]
    /\ UNCHANGED <<now, sm2, sel, pred, adj, timing, recorded, rt, storeVars, hookVars>>

\* the calls processUserResponse makes on the engine's parts and on storage, in the
\* order it makes them; a throw of calculateNextReview ends it there
processUserResponseCalls_AdjusterLast(accepted) ==
    IF accepted
    THEN << "calculateNextReview", "updateUserPerformance", "updateLearningItem",
            "updateModel", "adjustItemDifficulty" >>
    ELSE << "calculateNextReview" >>

processUserResponseCalls(accepted) ==
    IF accepted
    THEN << "calculateNextReview", "updateUserPerformance", "adjustItemDifficulty",
            "updateLearningItem", "updateModel" >>
    ELSE << "calculateNextReview" >>

\* the sessionId is not looked at; a throw of calculateNextReview ends the call before
\* anything is handed to storage; predictor.updateModel only logs
processUserResponse ==
    /\ Len(coord.responses) < MaxResponses
    /\ \E sessionId \in 1 .. MaxSessions, quality \in ResponseQualities,
          wasCorrect \in BOOLEAN :
          LET content == ResponseContent
              responseTime == ResponseTime
              itemData == getLearningItemData
              userData == getUserLearningData
              updatedSRS == calculateNextReview(quality, itemData.repetitions,
                                                itemData.interval, itemData.easeFactor)
              adjustedItem ==
                  adjustItemDifficulty(itemData,
                      [accuracy |-> IF wasCorrect THEN 1000 ELSE 0,
                       responseTime |-> responseTime,
                       attempts |-> itemData.attempts + 1,
                       previousAverageTime |-> itemData.averageTime[1]])
              updateData ==
                  Spread(Spread([f \in DOMAIN updatedSRS \ {"ok"} |-> updatedSRS[f]],
                                adjustedItem),
                         [lastReviewed |-> now])
          IN  IF ~updatedSRS.ok
              THEN coord' = [coord EXCEPT !.responses =
                               Append(@, [sessionId |-> sessionId, quality |-> quality,
                                          calls |-> processUserResponseCalls(FALSE),
                                          ok |-> FALSE])]
              ELSE coord' = [coord EXCEPT
                               !.performanceUpdates =
                                   Append(@, [contentType |-> content[1],
                                              contentId |-> content[2],
                                              quality |-> quality,
                                              responseTime |-> responseTime,
                                              wasCorrect |-> wasCorrect]),
                               !.itemUpdates =
                                   Append(@, [contentType |-> content[1],
                                              contentId |-> content[2],
                                              updateData |-> updateData]),
                               !.responses =
                                   Append(@, [sessionId |-> sessionId, quality |-> quality,
                                              calls |-> processUserResponseCalls(TRUE),
                                              ok |-> TRUE])]
    /\ UNCHANGED <<now, sm2, sel, pred, adj, timing, meta, recorded, rt, storeVars, hookVars>>

CoordInit ==
    /\ \E candidateItems \in CoordPools :
          coord = [CoordIdle EXCEPT !.candidateItems = candidateItems]
    /\ meta = MetaIdle
    /\ now = 0
    /\ sm2 = SM2Idle
    /\ sel = SelIdle
    /\ pred = PredIdle
    /\ adj = AdjIdle
    /\ timing = TimingIdle
    /\ recorded = RecordedIdle
    /\ rt = RtIdle
    /\ StoreIdle
    /\ HookIdle

CoordNext == initializeStudySession \/ processUserResponse

SpecCoordinator == CoordInit /\ [][CoordNext]_vars

----------------------------------------------------------------------------
(* Scheduler harness: a card in any state the data model allows            *)
(* (easeFactor >= 1.3, interval >= 0, repetitions >= 0) is put through a   *)
(* sequence of calls of one scheduler; the card becomes what the call      *)
(* returned, and stays as it was when the call threw.                      *)

SM2InitCards ==
    { SM2Card(r, i, MinEaseFactor + 10 * k) :
        r \in 0 .. MaxInitRepetitions,
        i \in 0 .. MaxInitInterval,
        k \in 0 .. MaxInitEaseSteps }

SM2Init ==
    /\ \E impl \in {"calculateSM2", "calculateNextReview"}, c \in SM2InitCards :
          sm2 = [SM2Idle EXCEPT !.impl = impl, !.card = c, !.before = c]
    /\ now = 0
    /\ StoreIdle
    /\ HookIdle
    /\ sel = SelIdle
    /\ pred = PredIdle
    /\ EngineIdle

\* one call of `impl` on the harness card; the harness keeps what went in and what came out
SM2Apply(quality, res) ==
    sm2' = [sm2 EXCEPT
              !.calls = @ + 1,
              !.called = TRUE,
              !.quality = quality,
              !.before = sm2.card,
              !.ok = res.ok,
              !.card = IF res.ok
                       THEN SM2Card(res.repetitions, res.interval, res.easeFactor)
                       ELSE @]

CallCalculateSM2 ==
    /\ sm2.impl = "calculateSM2"
    /\ sm2.calls < MaxCalls
    /\ \E quality \in Qualities :
          SM2Apply(quality, calculateSM2(quality, sm2.card.repetitions,
                                         sm2.card.easeFactor, sm2.card.interval))
    /\ UNCHANGED <<now, sel, pred, engineVars, storeVars, hookVars>>

CallCalculateNextReview ==
    /\ sm2.impl = "calculateNextReview"
    /\ sm2.calls < MaxCalls
    /\ \E quality \in Qualities :
          SM2Apply(quality, calculateNextReview(quality, sm2.card.repetitions,
                                                sm2.card.interval, sm2.card.easeFactor))
    /\ UNCHANGED <<now, sel, pred, engineVars, storeVars, hookVars>>

SM2Next == CallCalculateSM2 \/ CallCalculateNextReview

SpecSM2 == SM2Init /\ [][SM2Next]_vars

SelNext == CallSelectStudyItems \/ Tick

SpecSelector == SelInit /\ [][SelNext]_vars

PredNext == CallPredictRecallProbability

SpecPredictor == PredInit /\ [][PredNext]_vars

----------------------------------------------------------------------------
(* The application: the hook over the store, from a signed-in user with no *)
(* cards yet.                                                              *)

Init ==
    /\ sm2 = SM2Idle
    /\ now = 0
    /\ srs_cards = << >>
    /\ user_performance = << >>
    /\ strictColumns \in BOOLEAN
    /\ HookIdle
    /\ sel = SelIdle
    /\ pred = PredIdle
    /\ EngineIdle

Next == addToSRS \/ reviewCard \/ Tick

Spec == Init /\ [][Next]_vars

----------------------------------------------------------------------------
(* Claims about the scheduler *)

\* the step of the ease factor for a quality, in hundredths, before the floor
EaseStep(quality) == 10 - (5 - quality) * (8 + (5 - quality) * 2)

\* what the scheduler under test returns for `quality` on `card`
Schedule(quality, card) ==
    IF sm2.impl = "calculateNextReview"
    THEN calculateNextReview(quality, card.repetitions, card.interval, card.easeFactor)
    ELSE calculateSM2(quality, card.repetitions, card.easeFactor, card.interval)

\* C1: starting from an ease factor of at least 1.3, the ease factor of the card is at
\* least 1.3 after every review, whatever the sequence of quality scores, under
\* calculateSM2 and under calculateNextReview.
C1_EaseFactorFloor == sm2.card.easeFactor >= MinEaseFactor

\* a second review in a row on which the unfloored ease factor would have been below 1.3
C1_Witness ==
    /\ sm2.calls = 2
    /\ sm2.ok
    /\ sm2.before.easeFactor + EaseStep(sm2.quality) < MinEaseFactor
    /\ sm2.card.easeFactor = MinEaseFactor

\* C2: a review with quality < 3 that the scheduler accepts leaves the card with
\* repetitions 0 and interval 1, whatever its repetitions, interval and ease factor were.
C2_FailureResets ==
    (sm2.called /\ sm2.ok /\ sm2.quality < 3) =>
        (sm2.card.repetitions = 0 /\ sm2.card.interval = 1)

\* a failed review of a card that had a streak and a long interval
C2_Witness ==
    /\ sm2.called /\ sm2.ok /\ sm2.quality < 3
    /\ sm2.before.repetitions >= 2
    /\ sm2.before.interval > 1
    /\ sm2.card.repetitions = 0 /\ sm2.card.interval = 1

\* C3: on a review with quality >= 3 the scheduler sets repetitions to repetitions + 1
\* and the interval to 1 for the first repetition, 6 for the second and otherwise to
\* round(interval * easeFactor) of the interval and the ease factor passed in.
C3_SuccessInterval ==
    (sm2.called /\ sm2.ok /\ sm2.quality >= 3) =>
        /\ sm2.card.repetitions = sm2.before.repetitions + 1
        /\ sm2.card.interval =
              IF sm2.card.repetitions = 1 THEN 1
              ELSE IF sm2.card.repetitions = 2 THEN 6
              ELSE MathRound(sm2.before.interval * sm2.before.easeFactor, 100)

\* C5: for fixed repetitions >= 2, interval and ease factor, the interval the scheduler
\* returns for a quality of 4 or 5 is at least the one it returns for the quality below.
C5_IntervalMonotone ==
    (sm2.called /\ sm2.ok /\ sm2.before.repetitions >= 2 /\ sm2.quality \in 4 .. 5) =>
        sm2.card.interval >= Schedule(sm2.quality - 1, sm2.before).interval

\* quality 5 gives a strictly longer interval than quality 4 on the same card
C5_Witness ==
    /\ sm2.called /\ sm2.ok /\ sm2.before.repetitions >= 2 /\ sm2.quality = 5
    /\ sm2.card.interval > Schedule(4, sm2.before).interval

\* C6: a review whose quality is outside 0..5 is rejected: the scheduler returns no
\* new values for it and the card stays as it was.
C6_InvalidQualityRejected ==
    (sm2.called /\ (sm2.quality < MinQuality \/ sm2.quality > MaxQuality)) =>
        (~sm2.ok /\ sm2.card = sm2.before)

----------------------------------------------------------------------------
(* Claims about the hook *)

\* C4: the repetitions of every card equal the number of reviews with quality >= 3
\* the store has received for it since the last one with quality < 3 (or since the
\* card was created).
C4_RepetitionsCountSuccesses ==
    \A i \in 1 .. Len(srs_cards) : srs_cards[i].repetitions = reviewed[i]

----------------------------------------------------------------------------
(* Claims about the item selector *)

\* C7: selectStudyItems with itemCount N returns at most N items, and exactly N items
\* if and only if the pool holds at least N.
C7_CountBound ==
    sel.calls >= 1 =>
        /\ Len(sel.result) <= sel.itemCount
        /\ (Len(sel.result) = sel.itemCount) <=> (Len(sel.candidateItems) >= sel.itemCount)

\* C8: the list returned is in non-increasing order of priorityScore, and items of
\* equal score keep the order they had in the candidate list.
C8_SortedStable ==
    sel.calls >= 1 =>
        \A i, j \in 1 .. Len(sel.result) :
            i < j =>
                LET a == sel.result[i].priorityScore
                    b == sel.result[j].priorityScore
                IN  /\ a # NaN /\ b # NaN
                    /\ a[1] >= b[1]
                    /\ (a[1] = b[1] => sel.result[i].id < sel.result[j].id)

\* C9: a second call with the same user state and the same candidates returns the
\* same items with the same scores in the same order as the first.
C9_Deterministic == sel.calls >= 2 => sel.result = sel.previous

----------------------------------------------------------------------------
(* Claims about the retention predictor *)

\* C10: predictRecallProbability returns a probability in [0, 1] (0 .. 1000000
\* millionths) for every finite feature vector.
C10_ProbabilityInUnitInterval ==
    pred.called => (pred.probability >= 0 /\ pred.probability <= 1000000)

\* a call whose Math.exp overflowed to Infinity
C10_Witness ==
    /\ pred.called
    /\ (0 - Logit(pred.itemData)) \div 10 > ExpOverflow
    /\ pred.probability = 0

----------------------------------------------------------------------------
(* Claims about the difficulty adjuster *)

\* the signed difficulty delta of a result: the increase, or minus the decrease
DifficultyDelta(result) ==
    (IF result.difficultyIncrease = << >> THEN 0 ELSE result.difficultyIncrease[1])
    - (IF result.difficultyDecrease = << >> THEN 0 ELSE result.difficultyDecrease[1])

\* C11: for every accuracy in [0, 1] and every response time the difficulty delta of
\* adjustItemDifficulty lies in [-0.40, +0.30]: an increase is above 0 and at most 0.30,
\* a decrease is above 0 and at most 0.40 in magnitude, and never both.
C11_DifficultyDeltaBounded ==
    adj.called =>
        LET result == adj.result[1]
        IN  /\ DifficultyDelta(result) >= -40
            /\ DifficultyDelta(result) <= 30
            /\ result.difficultyIncrease # << >> =>
                   /\ result.difficultyIncrease[1] > 0
                   /\ result.difficultyIncrease[1] <= 30
                   /\ result.difficultyDecrease = << >>
            /\ result.difficultyDecrease # << >> =>
                   /\ result.difficultyDecrease[1] > 0
                   /\ result.difficultyDecrease[1] <= 40

\* the largest decrease: an accuracy below 0.3 with a response slower than 1.5 times
\* the average
C11_Witness ==
    /\ adj.called
    /\ adj.performanceData.accuracy < 300
    /\ adj.item.averageTime # << >>
    /\ 2 * adj.performanceData.responseTime > 3 * adj.item.averageTime[1]
    /\ DifficultyDelta(adj.result[1]) = -35

----------------------------------------------------------------------------
(* Claims about the review-timing search *)

\* C12: recommendReviewTiming ends after at most 20 bisection steps with its bracket
\* inside [0.1, 365], and the number of days it returns lies inside [0.1, 365].
C12_TimingInRange ==
    timing.called =>
        LET result == timing.result[1]
        IN  /\ result.iterations <= MaxIterations
            /\ SearchLow * 10 <= result.low
            /\ result.low <= result.high
            /\ result.high <= SearchHigh * 10
            /\ SearchLow <= result.days * 10
            /\ result.days * 10 <= SearchHigh

----------------------------------------------------------------------------
(* Claims about the content metadata manager *)

\* C16: once a getContentMetadata call for a key has returned, every call for the key
\* that begins later returns the same metadata without computing it; and an entry of
\* the cache holds the metadata of its own key, so distinct keys share no entry.
C16_CachedAfterFirstReturn ==
    /\ \A i, j \in 1 .. Len(meta.calls) :
           (/\ meta.calls[i].key = meta.calls[j].key
            /\ meta.calls[i].returned # 0
            /\ meta.calls[j].returned # 0
            /\ meta.calls[j].began > meta.calls[i].returned) =>
               (/\ meta.calls[j].value = meta.calls[i].value
                /\ ~meta.calls[j].computed)
    /\ \A k \in DOMAIN meta.cache :
           CacheKey(meta.cache[k].type, meta.cache[k].id) = k

\* C17: of the calls for one key, at most one computes the metadata, and all that have
\* returned have returned the same value.
C17_MissesCoalesced ==
    \A i, j \in 1 .. Len(meta.calls) :
        (i # j /\ meta.calls[i].key = meta.calls[j].key) =>
            /\ ~(meta.calls[i].computed /\ meta.calls[j].computed)
            /\ (meta.calls[i].returned # 0 /\ meta.calls[j].returned # 0) =>
                   meta.calls[i].value = meta.calls[j].value

----------------------------------------------------------------------------
(* Claims about the coordinator *)

\* C13: a response is accepted only for a session in SessionActive, that is, one that
\* initializeStudySession has returned (and that has not been ended).
C13_ResponsesOnlyForActiveSessions ==
    \A r \in 1 .. Len(coord.responses) :
        coord.responses[r].ok =>
            \E n \in 1 .. Len(coord.sessions) :
                coord.sessions[n].sessionId = coord.responses[r].sessionId

\* C15: initializeStudySession returns no session with an empty item list.
C15_NoEmptySession ==
    \A n \in 1 .. Len(coord.sessions) : Len(coord.sessions[n].items) > 0

----------------------------------------------------------------------------
(* Claims about failed and repeated operations of the hook *)

\* C14: a response whose processing fails (reviewCard returns null) commits nothing:
\* neither the card nor the performance record is written by it, so what earlier
\* responses committed is as it was.
C14_FailedResponseCommitsNothing ==
    lastReview.returned = "null" => (~lastReview.card /\ ~lastReview.performance)

\* C19: after any sequence of addToSRS calls, also when the lookup of the existing card
\* fails, the store holds at most one card per user and content item.
C19_OneCardPerContent ==
    \A i, j \in 1 .. Len(srs_cards) :
        (/\ srs_cards[i].user_id = srs_cards[j].user_id
         /\ srs_cards[i].content_type = srs_cards[j].content_type
         /\ srs_cards[i].content_id = srs_cards[j].content_id) => i = j

----------------------------------------------------------------------------
(* Claims about the store functions *)

\* C18: every user_performance row has attempts equal to the number of attempts the
\* store has recorded for its content item and correct_attempts equal to the number of
\* correct ones, so 0 <= correct_attempts <= attempts, and its accuracy_rate is
\* correct_attempts / attempts (a percentage with two decimals).
C18_PerformanceCounts ==
    \A i \in 1 .. Len(user_performance) :
        LET row == user_performance[i]
            content == << row.content_type, row.content_id >>
        IN  /\ row.attempts = recorded.attempts[content]
            /\ row.correct_attempts = recorded.correct[content]
            /\ 0 <= row.correct_attempts
            /\ row.correct_attempts <= row.attempts
            /\ row.accuracy_rate = MathRound(row.correct_attempts * 10000, row.attempts)

\* C20: no operation of the module other than review processing alters or removes a
\* card: across every step of createSRSCard, deleteSRSCard and updateUserPerformance
\* each card that exists is still there with the same values.
C20_CardsKept ==
    [][\A i \in 1 .. Len(srs_cards) :
          srs_cards[i].user_id # NoUser =>
              (i <= Len(srs_cards') /\ srs_cards'[i] = srs_cards[i])]_vars

----------------------------------------------------------------------------
(* Claims about the coordinator's response processing *)

\* C21: the item update handed to storage after a response carries the interval,
\* repetitions and easeFactor the scheduler computed for that response, not the
\* values the item had before the response.
C21_UpdateCarriesSchedule ==
    \A k \in 1 .. Len(coord.itemUpdates) :
        LET itemData == getLearningItemData
            updatedSRS == calculateNextReview(coord.performanceUpdates[k].quality,
                                              itemData.repetitions, itemData.interval,
                                              itemData.easeFactor)
            updateData == coord.itemUpdates[k].updateData
        IN  /\ updateData.interval = updatedSRS.interval
            /\ updateData.repetitions = updatedSRS.repetitions
            /\ updateData.easeFactor = updatedSRS.easeFactor

Positions(calls, name) == { i \in 1 .. Len(calls) : calls[i] = name }

\* scheduler, adjuster and model update each called exactly once and in that order,
\* the item update handed to storage after the scheduler and the adjuster
InOrder(calls) ==
    LET scheduler == Positions(calls, "calculateNextReview")
        adjuster == Positions(calls, "adjustItemDifficulty")
        predictor == Positions(calls, "updateModel")
        storage == Positions(calls, "updateLearningItem")
    IN  /\ Cardinality(scheduler) = 1
        /\ Cardinality(adjuster) = 1
        /\ Cardinality(predictor) = 1
        /\ \A i \in scheduler, j \in adjuster, k \in predictor : i < j /\ j < k
        /\ \A u \in storage : \A i \in scheduler, j \in adjuster : i < u /\ j < u

\* C22 (as stated): for every response, processUserResponse calls the scheduler, then
\* the adjuster, then the predictor's model update, each exactly once and in that
\* order, and hands the item update to storage only after scheduler and adjuster.
C22_EveryResponseInOrder ==
    \A k \in 1 .. Len(coord.responses) : InOrder(coord.responses[k].calls)

\* C22 (amended): for every response whose quality is in 0..5, processUserResponse
\* calls the scheduler, then the adjuster, then the predictor's model update, each
\* exactly once and in that order, and hands the item update to storage only after
\* scheduler and adjuster; a response with a quality outside 0..5 ends at the
\* scheduler's rejection, and nothing after the scheduler is called.
C22_ValidResponseInOrder ==
    \A k \in 1 .. Len(coord.responses) :
        LET response == coord.responses[k]
        IN  IF response.quality \in MinQuality .. MaxQuality
            THEN InOrder(response.calls)
            ELSE response.calls = << "calculateNextReview" >>

\* C22 witness: a response with a valid quality has been processed to the end and its
\* item update has been handed to storage
C22_Witness ==
    \E k \in 1 .. Len(coord.responses) :
        /\ coord.responses[k].quality \in MinQuality .. MaxQuality
        /\ Positions(coord.responses[k].calls, "updateLearningItem") # {}
        /\ Len(coord.itemUpdates) > 0

----------------------------------------------------------------------------
(* Claims about the selector's priority score *)

\* two scored items that differ only in due-ness: a is due, b is not
DifferOnlyInDueness(a, b) ==
    /\ a.isDueForReview
    /\ ~b.isDueForReview
    /\ a.contentType = b.contentType
    /\ a.curriculumPriority = b.curriculumPriority
    /\ a.isNew = b.isNew
    /\ sel.userData.itemPerformance[a.id] = sel.userData.itemPerformance[b.id]

\* C23: of two candidates that differ only in due-ness the due one scores strictly
\* higher and is ranked first: its due-ness contribution is 0.3 * 100 = 30 and the
\* other's is 0.3 * max(0, 50 - daysUntilDue), so the scores differ by
\* 0.3 * (100 - max(0, 50 - daysUntilDue)).
C23_DueRankedFirst ==
    \A i \in 1 .. Len(sel.result), j \in 1 .. Len(sel.result) :
        LET a == sel.result[i]
            b == sel.result[j]
        IN  DifferOnlyInDueness(a, b) =>
                /\ a.priorityScore # NaN
                /\ b.priorityScore # NaN
                /\ b.nextReviewDate # << >>
                /\ a.priorityScore[1] - b.priorityScore[1] =
                       DueForReviewWeight * 100 *
                           (100 - Max(0, 50 - (b.nextReviewDate[1] - sel.scoredAt)))
                /\ a.priorityScore[1] > b.priorityScore[1]
                /\ i < j

\* C24: the weakness score of every candidate lies in [0, 100] (held in hundredths):
\* the baseline of its category, plus (1 - itemAccuracy) * 30 when the item has a
\* performance record, capped at 100.
C24_WeaknessInRange ==
    sel.calls > 0 =>
        \A i \in 1 .. Len(sel.candidateItems) :
            LET weaknessScore == calculateWeaknessScore(sel.candidateItems[i], sel.userData)
            IN  0 <= weaknessScore /\ weaknessScore <= 100 * 100

----------------------------------------------------------------------------
(* Claims about the time-pressure signal *)

\* the time-pressure delta of the claim, in hundredths: -0.1 when
\* responseTime / priorAverage > 2, +0.1 when the ratio is < 0.5, and 0 otherwise
TimePressureDelta(responseTime, priorAverage) ==
    IF responseTime > 2 * priorAverage THEN -10
    ELSE IF 2 * responseTime < priorAverage THEN 10
    ELSE 0

\* C25 (as stated): for every performance sample with a prior average response time
\* adjustItemDifficulty returns a time-pressure delta of -0.1 when
\* responseTime / priorAverage > 2, of +0.1 when the ratio is < 0.5 and of 0 otherwise,
\* whatever the accuracy.
C25_TimePressureForEverySample ==
    (adj.called /\ adj.performanceData.previousAverageTime # 0) =>
        adj.result[1].timePressure =
            << TimePressureDelta(adj.performanceData.responseTime,
                                 adj.performanceData.previousAverageTime) >>

\* C25 (amended): for every performance sample of a second or later attempt
\* (attempts > 1) with a prior average response time adjustItemDifficulty returns a
\* time-pressure delta of -0.1 when responseTime / priorAverage > 2, of +0.1 when the
\* ratio is < 0.5 and of 0 otherwise, whatever the accuracy; for a sample with
\* attempts <= 1 it returns no time-pressure delta at all.
C25_TimePressureAfterFirstAttempt ==
    (adj.called /\ adj.performanceData.previousAverageTime # 0) =>
        adj.result[1].timePressure =
            IF adj.performanceData.attempts > 1
            THEN << TimePressureDelta(adj.performanceData.responseTime,
                                      adj.performanceData.previousAverageTime) >>
            ELSE << >>

\* C25 witness: a second attempt more than twice as slow as the prior average, on an
\* accuracy that takes the difficulty-increase branch, has got the delta -0.1
C25_Witness ==
    /\ adj.called
    /\ adj.performanceData.attempts > 1
    /\ adj.performanceData.previousAverageTime # 0
    /\ adj.performanceData.responseTime > 2 * adj.performanceData.previousAverageTime
    /\ adj.performanceData.accuracy >= EasyThreshold
    /\ adj.result[1].difficultyIncrease # << >>
    /\ adj.result[1].timePressure = << -10 >>

----------------------------------------------------------------------------
(* Claims about the two writes of a review *)

\* C26: when reviewCard returns, the card update and the performance-record update of
\* that review are either both applied or both absent, also when one of the two store
\* calls fails.
C26_ReviewAtomic ==
    lastReview.returned # "none" => (lastReview.card <=> lastReview.performance)

\* C27: after any sequence of attempts, also when the lookup of the existing record
\* fails, user_performance holds at most one row per user and content item.
C27_OneRecordPerContent ==
    \A c \in Contents : Cardinality(RowsByContent(user_performance, c[1], c[2])) <= 1

----------------------------------------------------------------------------
(* Claims about the mounted hook *)

\* SM-2 applied to a card for quality q1 and then to the result for quality q2
ReviewedTwice(card, q1, q2) ==
    LET first == calculateSM2(q1, card.repetitions, card.ease_factor, card.interval)
    IN  calculateSM2(q2, first.repetitions, first.easeFactor, first.interval)

StoredAs(row, sm2Result) ==
    /\ row.interval = sm2Result.interval
    /\ row.repetitions = sm2Result.repetitions
    /\ row.ease_factor = sm2Result.easeFactor

\* C28: no review is lost: when two reviewCard calls for the same card have returned,
\* back to back or overlapping, the stored card is SM-2 applied twice in sequence to
\* the card as it was when the first call was made (in the order of the calls or, for
\* overlapping calls, in the other order).
C28_NoReviewLost ==
    \A i \in 1 .. Len(rt.calls), j \in 1 .. Len(rt.calls) :
        (/\ i < j
         /\ rt.calls[i].stage = "returned"
         /\ rt.calls[j].stage = "returned"
         /\ rt.calls[i].cardId = rt.calls[j].cardId
         /\ rt.calls[i].cardId \in LiveRows(srs_cards)) =>
            LET original == rt.calls[i].card
                stored == srs_cards[rt.calls[i].cardId]
            IN  \/ StoredAs(stored, ReviewedTwice(original, rt.calls[i].quality,
                                                  rt.calls[j].quality))
                \/ StoredAs(stored, ReviewedTwice(original, rt.calls[j].quality,
                                                  rt.calls[i].quality))

\* C29: in every interleaving of the initial fetch, addToSRS, reviewCard and the
\* realtime events, srsCards never holds a card id twice and every card of dueCards is
\* in srsCards.
C29_ListsConsistent ==
    /\ \A i, j \in 1 .. Len(srsCards) : srsCards[i].id = srsCards[j].id => i = j
    /\ \A d \in 1 .. Len(dueCards) :
          \E c \in 1 .. Len(srsCards) : srsCards[c].id = dueCards[d].id

----------------------------------------------------------------------------
(* Claims about the schedule of a reviewed card *)

====
